---- MODULE Spec2Model ----
(***************************************************************************)
(* Video processing pipeline (backend/routes/videos.js processVideoAsync,  *)
(* backend/utils/videoProcessor.js), the Socket.io progress channel        *)
(* (backend/socket/socketHandler.js) and the browser consumer              *)
(* (frontend SocketContext + VideoUpload page).                            *)
(*                                                                         *)
(* One orchestrator action runs from the resumption of one await to the    *)
(* next await of the JavaScript code.  The database applies (or rejects)   *)
(* each write in an action of its own, so that the writes the progress     *)
(* callback issues without awaiting them may be applied at any later time. *)
(***************************************************************************)
EXTENDS Integers, Sequences, FiniteSets, TLC

VARIABLES
    pc,             \* await site at which the upload handler / processVideoAsync is suspended
    created,        \* Video.create has stored the record of the job
    uploadResponse, \* HTTP status sent to the uploading request (0 = none yet)
    record,         \* the persisted Video document of the job
    dbAck,          \* outcome of the awaited write: "none" | "ok" | "err"
    awaitedWrite,   \* the update of the awaited findByIdAndUpdate in flight
    pendingWrites,  \* updates issued by the analysis callback, not awaited
    emitted,        \* every event handed to global.io, in order
    hasBackend,     \* useFrameAnalysis: a detection API is available
    duration,       \* metadata.duration in seconds (0 = missing)
    frames,         \* frames.length after extraction
    frameIdx,       \* loop variable i of the frame loop
    frameResults,   \* frameResults array of analyzeVideoSensitivity
    verdict,        \* sensitivityAnalysis.status ("none" until analysed)
    confidence,     \* sensitivityAnalysis.confidence, in units of 1/PScale
    maxFrames,      \* maxFrames of analyzeVideoSensitivity (0 until computed)
    frameCount,     \* frameCount of extractFrames (0 until computed)
    explicitCount,  \* explicitCount of the frame loop
    violentCount,   \* violentCount of the frame loop
    classified,     \* how each analyzeFrame race of the frame loop settled
    frameFiles,     \* indices (1-based, as in `frames`) of the frame files on disk
    safeSearch,     \* result.safeSearchAnnotation of a Cloud Vision call of analyzeFrame
    frameAnalysis,  \* what analyzeFrame returned for it (NoAnalysis before)
    lastPercent,    \* last percent reported by the transcoder
    reports,        \* number of transcoder progress reports so far
    transcodeFailed,\* the transcoder promise was rejected
    updateFailed,   \* an awaited findByIdAndUpdate of the run was rejected
    rooms,          \* Socket.io rooms of the server: room name -> sockets in it
    subMsgs,        \* subscribe:video messages in flight to the server
    inbox,          \* events in flight to the browser consumer (indices of emitted)
    gotEvent,       \* observer -> an event of the job was sent to its socket
    link,           \* transport of the consumer's socket: "down" | "up"
    conns,          \* connections the consumer's socket has established
    connected,      \* SocketProvider state `connected` as last rendered
    connectedNext,  \* value queued by setConnected, not rendered yet
    pendingSubs,    \* pendingVideoSubscriptionsRef.current
    sentOnConn,     \* ids whose subscribe was emitted on the current connection
    videoId,        \* VideoUpload state `videoId`
    effectDirty,    \* the VideoUpload effect is scheduled to (re)run
    effectGen,      \* instance number of the mounted effect (0 = none)
    polling,        \* pollInterval of the mounted effect instance is set
    polls,          \* status polls in flight
    pollTicks,      \* interval ticks so far
    status,         \* VideoUpload state `status` (the phase)
    processingProgress, \* VideoUpload state `processingProgress`
    listeners,      \* video:progress / video:complete callbacks on the socket
    maxInvocations, \* most callback invocations caused by one received event
    completeHandled,\* invocations of the video:complete callback
    pushSeen,       \* events handled by the callbacks of the page
    mounted,        \* the VideoUpload page is mounted
    navTimer,       \* the 2s navigate timeout of the complete callback is set
    joins,          \* subscribe:video messages of the consumer handled for the job
    lateStart,      \* the page began to observe after the run had ended
    okPolls,        \* poll responses handled by the page
    lastPolled,     \* status returned by the last handled poll response
    analysisDetails,   \* VideoUpload state `analysisDetails.frameResults`
    frameResultsRef,   \* frameResultsRef.current
    lastData,          \* frame fields of the data the progress callback handled last
    rawStatus,      \* text of data.status of the progress event handled last as text
    prevStatus,     \* `prev` of the setStatus updater for that event
    video,          \* VideoPlayer state `video`: status of the fetched record
    playerDirty,    \* the subscription effect of VideoPlayer is scheduled to run
    playerSubscribed \* the mounted effect instance of VideoPlayer has subscribed

uploadVars == <<created, uploadResponse>>

analysisVars == <<frames, frameIdx, frameResults, verdict, confidence, maxFrames,
                  frameCount, explicitCount, violentCount, classified, frameFiles>>

envVars == <<hasBackend, duration>>

visionVars == <<safeSearch, frameAnalysis>>

transcodeVars == <<lastPercent, reports, transcodeFailed>>

pipeVars == <<pc, record, dbAck, awaitedWrite, pendingWrites, emitted,
              uploadVars, analysisVars, envVars, visionVars, transcodeVars,
              updateFailed>>

chanVars == <<inbox, gotEvent>>

serverVars == <<rooms, subMsgs>>

providerVars == <<link, conns, connected, connectedNext, pendingSubs, sentOnConn>>

frameVars == <<analysisDetails, frameResultsRef, lastData>>

pageVars == <<videoId, effectDirty, effectGen, polling, polls, pollTicks, status,
              processingProgress, listeners, maxInvocations, completeHandled,
              pushSeen, mounted, navTimer, joins, lateStart, okPolls, lastPolled,
              frameVars>>

phaseVars == <<rawStatus, prevStatus>>

playerVars == <<video, playerDirty, playerSubscribed>>

clientVars == <<serverVars, providerVars, pageVars, phaseVars, playerVars>>

vars == <<pipeVars, chanVars, clientVars>>

----------------------------------------------------------------------------
(* Bounds *)

MaxDuration == 4
MaxReports == 1
MaxConnects == 2
MaxPolls == 2
MaxFrameNo == 3
MaxSampled == 8
MaxProbe == 105

(* Progress values are fractions (36 + 4/n); they are kept exactly as      *)
(* integers in units of 1/PScale percent.                                  *)
PScale == 4 * 3 * 5
Pct(x) == x * PScale

Durations == 0..MaxDuration
TranscodePercents == {0, 50, 100}

NoProgress == 0 - 1
NoRecord == "none"
NoWrite == [none |-> TRUE]

TerminalStages == {"completed", "flagged", "failed"}

----------------------------------------------------------------------------
(* The persisted record *)

InitialRecord ==
    [status |-> "processing", processingProgress |-> 0,
     sensitivityStatus |-> "pending", processedPath |-> FALSE]

ApplyUpdate(rec, upd) ==
    [f \in DOMAIN rec |-> IF f \in DOMAIN upd THEN upd[f] ELSE rec[f]]

----------------------------------------------------------------------------
(* Observers, organizations and rooms *)

Consumer == "o1"        \* the browser of the uploader (SocketProvider + VideoUpload)
Foreigner == "o2"       \* an authenticated socket of another organization
Observers == {Consumer, Foreigner}

JobId == "v1"           \* the video the pipeline run is about
EarlierId == "v0"       \* a video uploaded earlier from the same page
VideoIds == {EarlierId, JobId}
NoVideo == "none"

OrganizationOf(x) ==
    CASE x = Consumer  -> "orgA"
      [] x = Foreigner -> "orgB"
      [] x = JobId     -> "orgA"
      [] x = EarlierId -> "orgA"

VideoRoom(v) == <<"video", v>>
OrgRoom(org) == <<"org", org>>
RoomNames == {VideoRoom(v) : v \in VideoIds} \cup {OrgRoom(OrganizationOf(o)) : o \in Observers}

----------------------------------------------------------------------------
(* Events *)

NoFrame == [none |-> TRUE]

(* emitVideoProgress(videoId, progress, status, details): frameData says    *)
(* that details carry currentFrame / totalFrames, frame is details.frameResult *)
FrameEvent(progress, statusMessage, frameData, frame) ==
    [kind |-> "video:progress", status |-> statusMessage, progress |-> progress,
     error |-> FALSE, frameData |-> frameData, frame |-> frame]

ProgressEvent(progress, statusMessage) ==
    FrameEvent(progress, statusMessage, FALSE, NoFrame)

CompleteEvent(finalStatus, progress, error) ==
    [kind |-> "video:complete", status |-> finalStatus, progress |-> progress,
     error |-> error, frameData |-> FALSE, frame |-> NoFrame]

(* global.io.to(`video:${videoId}`).emit(...): the event goes to the sockets *)
(* that are in the room of the job when it is emitted                      *)
Emit(evs) ==
    /\ emitted' = emitted \o evs
    /\ inbox' = IF Consumer \in rooms[VideoRoom(JobId)]
                THEN inbox \o [k \in 1..Len(evs) |-> Len(emitted) + k]
                ELSE inbox
    /\ gotEvent' = [o \in Observers |->
                       gotEvent[o] \/ (evs # << >> /\ o \in rooms[VideoRoom(JobId)])]

----------------------------------------------------------------------------
(* The analysis progress callback of processVideoAsync *)

(* the window mapping without its base of 30 *)
TotalProgress_NoBase(progress) == progress \div 5

(* const totalProgress = 30 + (progress * 0.2) *)
TotalProgress(progress) == Pct(30) + (progress \div 5)

CallbackEvent(progress, statusMessage) ==
    ProgressEvent(TotalProgress(progress), statusMessage)

(* the callback called with details (totalFrames, currentFrame, frameResult) *)
CallbackFrameEvent(progress, statusMessage, frame) ==
    FrameEvent(TotalProgress(progress), statusMessage, TRUE, frame)

CallbackWrite(progress) ==
    [processingProgress |-> TotalProgress(progress), status |-> "analyzing"]

----------------------------------------------------------------------------
(* analyzeVideoSensitivity: frame count and overall status *)

FrameInterval(d) == IF d < 10 THEN 2 ELSE 5

Max(a, b) == IF a >= b THEN a ELSE b
Min(a, b) == IF a <= b THEN a ELSE b

MaxFramesFor(d) == Max(1, Min(20, d \div FrameInterval(d)))

(* extractFrames falling back to the default interval of its signature *)
ExtractFrameCount_DefaultInterval(d, interval, limit) ==
    Max(1, Min(limit, (IF d = 0 THEN 60 ELSE d) \div 5))

(* extractFrames: totalDuration = duration || 60, frameCount *)
ExtractFrameCount(d, interval, limit) ==
    Max(1, Min(limit, (IF d = 0 THEN 60 ELSE d) \div interval))

(* confidences are fractions *)
Frac(n, d) == [num |-> n, den |-> d]
FracEq(x, y) == x.num * y.den = y.num * x.den
NoConfidence == Frac(0, 1)

(* explicitRatio > 0.15, i.e. count / n > 15 / 100 *)
OverThreshold(count, n) == count * 100 > 15 * n

(* a rule that calls sub-threshold detections safe *)
OverallStatus_IgnoresSubThreshold(explicit, violent, n) ==
    IF OverThreshold(explicit, n) \/ OverThreshold(violent, n)
    THEN "flagged"
    ELSE "safe"

OverallStatus(explicit, violent, n) ==
    IF OverThreshold(explicit, n) \/ OverThreshold(violent, n)
    THEN "flagged"
    ELSE IF explicit > 0 \/ violent > 0 THEN "flagged"
    ELSE "safe"

OverallConfidence(explicit, violent, n) ==
    IF OverThreshold(explicit, n) \/ OverThreshold(violent, n)
    THEN Frac(Max(explicit, violent), n)
    ELSE IF explicit > 0 \/ violent > 0 THEN Frac(7, 10)
    ELSE Frac(17, 20)

(* How the race of analyzeFrame against the 5s timer settles:              *)
(*  clean / explicit / violent: the detection API answered                  *)
(*  unavailable: the API calls failed, analyzeFrame fell back to            *)
(*               analyzeFrameBasic                                          *)
(*  timeout: the timer won, the race rejected                               *)
FrameOutcomes == {"clean", "explicit", "violent", "unavailable", "timeout"}

(* what follows a settled classification in the try block: the callback    *)
(* and the deletion of the frame file succeed, or unlinkSync throws; the   *)
(* catch block then tries the same unlinkSync again (676-682), which is    *)
(* taken to fail the same way                                              *)
PostSteps == {"ok", "unlinkFails"}

(* confidence returned by analyzeFrame (Vision: 0.9 / 0.5, basic: 0.2) *)
AnalyzeFrameConfidence(outcome) ==
    CASE outcome \in {"explicit", "violent"} -> Frac(9, 10)
      [] outcome = "clean" -> Frac(1, 2)
      [] OTHER -> Frac(1, 5)

(* frameResult of the try block (lines 614-620) *)
FrameResult(i, outcome) ==
    [frameNumber |-> i,
     isExplicit  |-> outcome = "explicit",
     isViolent   |-> outcome = "violent",
     confidence  |-> AnalyzeFrameConfidence(outcome),
     error       |-> FALSE]

(* errorFrameResult of the catch block (lines 653-660) *)
ErrorFrameResult(i) ==
    [frameNumber |-> i, isExplicit |-> FALSE, isViolent |-> FALSE,
     confidence |-> Frac(0, 1), error |-> TRUE]

(* frameProgress = 30 + ((i + 1) / frames.length) * 20, i zero-based *)
FrameProgress(i, n) == Pct(30) + (((i + 1) * Pct(20)) \div n)

(* analyzeFrame, Google Cloud Vision branch (lines 339-363) *)
Likelihoods == {"UNKNOWN", "VERY_UNLIKELY", "UNLIKELY", "POSSIBLE", "LIKELY",
                "VERY_LIKELY"}

NoAnnotation == [missing |-> TRUE]
NoAnalysis == [none |-> TRUE]

Annotations == [adult : Likelihoods, violence : Likelihoods, racy : Likelihoods]

PossibleOrAbove(level) == level \in {"VERY_LIKELY", "LIKELY", "POSSIBLE"}
LikelyOrAbove(level) == level \in {"VERY_LIKELY", "LIKELY"}

VisionAnalysis(annotation) ==
    LET isExplicit == PossibleOrAbove(annotation.adult)
        isViolent == PossibleOrAbove(annotation.violence)
        isRacy == LikelyOrAbove(annotation.racy)
    IN  [isExplicit |-> isExplicit \/ isRacy,
         isViolent  |-> isViolent,
         confidence |-> IF isExplicit \/ isViolent THEN Frac(9, 10) ELSE Frac(1, 2)]

(* analyzeFrameBasic (lines 452-481), the file being there *)
BasicAnalysis ==
    [isExplicit |-> FALSE, isViolent |-> FALSE, confidence |-> Frac(1, 5)]

(* the short-circuit returns of analyzeVideoSensitivity (lines 506-534);   *)
(* "none" when frames are to be sampled                                     *)
ShortCircuit_DurationFirst(backend, d) ==
    IF d < 3 THEN [status |-> "safe", confidence |-> Frac(3, 10),
                   message |-> "Video too short"]
    ELSE IF ~backend THEN [status |-> "flagged", confidence |-> Frac(1, 2),
                   message |-> "No API configured - flagging for review"]
    ELSE [status |-> "none", confidence |-> NoConfidence, message |-> ""]

ShortCircuit(backend, d) ==
    IF ~backend THEN [status |-> "flagged", confidence |-> Frac(1, 2),
                      message |-> "No API configured - flagging for review"]
    ELSE IF d < 3 THEN [status |-> "safe", confidence |-> Frac(3, 10),
                        message |-> "Video too short"]
    ELSE [status |-> "none", confidence |-> NoConfidence, message |-> ""]

----------------------------------------------------------------------------
(* processVideoAsync *)

(* the record is the document Video.create is to store (status            *)
(* 'processing', schema defaults); `created` says that it is stored        *)
InitPipelineFor(durations) ==
    /\ pc = "upload"
    /\ created = FALSE
    /\ uploadResponse = 0
    /\ record = InitialRecord
    /\ dbAck = "none"
    /\ awaitedWrite = NoWrite
    /\ pendingWrites = {}
    /\ emitted = << >>
    /\ hasBackend \in BOOLEAN
    /\ duration \in durations
    /\ frames = 0
    /\ frameIdx = 0
    /\ frameResults = << >>
    /\ verdict = "none"
    /\ confidence = NoConfidence
    /\ maxFrames = 0
    /\ frameCount = 0
    /\ explicitCount = 0
    /\ violentCount = 0
    /\ classified = << >>
    /\ frameFiles = {}
    /\ safeSearch = NoAnnotation
    /\ frameAnalysis = NoAnalysis
    /\ lastPercent = 0
    /\ reports = 0
    /\ transcodeFailed = FALSE
    /\ updateFailed = FALSE

InitPipeline == InitPipelineFor(Durations)

InitClient ==
    /\ rooms = [r \in RoomNames |->
                  IF r = OrgRoom(OrganizationOf(Foreigner)) THEN {Foreigner} ELSE {}]
    /\ subMsgs = {}
    /\ inbox = << >>
    /\ gotEvent = [o \in Observers |-> FALSE]
    /\ link = "down"
    /\ conns = 0
    /\ connected = FALSE
    /\ connectedNext = FALSE
    /\ pendingSubs \in {{}, {EarlierId}}
    /\ sentOnConn = {}
    /\ videoId = NoVideo
    /\ effectDirty = FALSE
    /\ effectGen = 0
    /\ polling = FALSE
    /\ polls = {}
    /\ pollTicks = 0
    /\ status = "uploading"
    /\ processingProgress = 0
    /\ listeners = 0
    /\ maxInvocations = 0
    /\ completeHandled = 0
    /\ pushSeen = FALSE
    /\ mounted = TRUE
    /\ navTimer = FALSE
    /\ joins = 0
    /\ lateStart = FALSE
    /\ okPolls = 0
    /\ lastPolled = "none"
    /\ analysisDetails = << >>
    /\ frameResultsRef = << >>
    /\ lastData = [frameData |-> FALSE, frame |-> NoFrame]
    /\ rawStatus = << >>
    /\ prevStatus = "none"
    /\ video = NoRecord
    /\ playerDirty = FALSE
    /\ playerSubscribed = FALSE

(* await Video.findByIdAndUpdate(videoId, upd) *)
AwaitWrite(upd, site) ==
    /\ awaitedWrite' = upd
    /\ dbAck' = "none"
    /\ pc' = site

(* catch (error): the failed update is awaited, its own failure swallowed *)
Catch(evs) ==
    /\ Emit(evs)
    /\ AwaitWrite([status |-> "failed", processingProgress |-> 0], "await_failed")

(* a catch block that answers 400 and falls through to Video.create *)
MetadataFailed_FallsThrough ==
    /\ pc = "upload"
    /\ pc' = "await_create"
    /\ uploadResponse' = 400
    /\ UNCHANGED <<created, record, dbAck, awaitedWrite, pendingWrites, emitted,
                   chanVars, analysisVars, envVars, visionVars, updateFailed, transcodeVars>>
    /\ UNCHANGED clientVars

(* POST /upload (upload.js 163-197): getVideoMetadata rejected, the file   *)
(* is removed and 400 is returned                                         *)
MetadataFailed ==
    /\ pc = "upload"
    /\ pc' = "rejected"
    /\ uploadResponse' = 400
    /\ UNCHANGED <<created, record, dbAck, awaitedWrite, pendingWrites, emitted,
                   chanVars, analysisVars, envVars, visionVars, updateFailed, transcodeVars>>
    /\ UNCHANGED clientVars

(* getVideoMetadata resolved: Video.create is awaited (lines 200-221) *)
MetadataDone ==
    /\ pc = "upload"
    /\ pc' = "await_create"
    /\ UNCHANGED <<uploadVars, record, dbAck, awaitedWrite, pendingWrites, emitted,
                   chanVars, analysisVars, envVars, visionVars, updateFailed, transcodeVars>>
    /\ UNCHANGED clientVars

(* Video.create rejected: outer catch of the handler (lines 231-245) *)
CreateFailed ==
    /\ pc = "await_create"
    /\ pc' = "rejected"
    /\ uploadResponse' = 500
    /\ UNCHANGED <<created, record, dbAck, awaitedWrite, pendingWrites, emitted,
                   chanVars, analysisVars, envVars, visionVars, updateFailed, transcodeVars>>
    /\ UNCHANGED clientVars

(* Video.create resolved: processVideoAsync is called and runs to its      *)
(* first await (lines 258-266), then 201 is returned (lines 224-230)       *)
StartProcessing ==
    /\ pc = "await_create"
    /\ created' = TRUE
    /\ uploadResponse' = 201
    /\ Emit(<<ProgressEvent(Pct(10), "processing")>>)
    /\ AwaitWrite([status |-> "processing", processingProgress |-> Pct(10)],
                  "await_processing")
    /\ UNCHANGED <<record, pendingWrites, analysisVars, envVars, visionVars, updateFailed, transcodeVars>>
    /\ UNCHANGED clientVars

(* lines 268-270 *)
StartAnalyzing ==
    /\ pc = "await_processing"
    /\ dbAck # "none"
    /\ IF dbAck = "ok"
       THEN /\ Emit(<<ProgressEvent(Pct(30), "analyzing")>>)
            /\ AwaitWrite([processingProgress |-> Pct(30), status |-> "analyzing"],
                          "await_analyzing")
       ELSE Catch(<< >>)
    /\ UNCHANGED <<record, pendingWrites, analysisVars, envVars, visionVars, updateFailed, uploadVars, transcodeVars>>
    /\ UNCHANGED clientVars

(* lines 289-290, reached when analyzeVideoSensitivity has returned *)
StartCompressing(evs, writes, analysisStatus, analysisConfidence) ==
    /\ verdict' = analysisStatus
    /\ confidence' = analysisConfidence
    /\ Emit(evs \o <<ProgressEvent(Pct(50), "compressing")>>)
    /\ pendingWrites' = pendingWrites \cup writes
    /\ AwaitWrite([processingProgress |-> Pct(50)], "await_compress_write")

loopVars == <<frames, frameIdx, frameResults, explicitCount, violentCount, classified>>

(* lines 274-285 with videoProcessor.js 493-548 and, called before the     *)
(* race is awaited, the frame count of extractFrames (249-253)             *)
BeginAnalysis ==
    /\ pc = "await_analyzing"
    /\ dbAck # "none"
    /\ IF dbAck = "err"
       THEN /\ Catch(<< >>)
            /\ UNCHANGED <<pendingWrites, analysisVars>>
       ELSE LET sc == ShortCircuit(hasBackend, duration)
            IN  IF sc.status # "none"
                THEN /\ StartCompressing(<<CallbackEvent(Pct(100), sc.message)>>,
                                         {CallbackWrite(Pct(100))},
                                         sc.status, sc.confidence)
                     /\ UNCHANGED <<loopVars, maxFrames, frameCount, frameFiles>>
                ELSE /\ maxFrames' = MaxFramesFor(duration)
                     /\ frameCount' = ExtractFrameCount(duration, FrameInterval(duration),
                                                        MaxFramesFor(duration))
                     /\ Emit(<<CallbackFrameEvent(Pct(10), "Extracting frames...",
                                                  NoFrame)>>)
                     /\ pendingWrites' = pendingWrites \cup {CallbackWrite(Pct(10))}
                     /\ pc' = "await_extract"
                     /\ UNCHANGED <<dbAck, awaitedWrite, loopVars, verdict, confidence,
                                     frameFiles>>
    /\ UNCHANGED <<record, envVars, visionVars, updateFailed, uploadVars, transcodeVars>>
    /\ UNCHANGED clientVars

(* a rejection of the extraction race that reaches the outer catch of     *)
(* analyzeVideoSensitivity (739-748)                                       *)
ExtractFailed_Flagged ==
    /\ pc = "await_extract"
    /\ \E k \in 0..frameCount : frameFiles' = 1..k
    /\ StartCompressing(<< >>, {}, "flagged", Frac(1, 2))
    /\ UNCHANGED <<record, loopVars, maxFrames, frameCount, envVars, visionVars, updateFailed, uploadVars,
                   transcodeVars>>
    /\ UNCHANGED clientVars

(* videoProcessor.js 559-568: the extraction race rejected, by the error  *)
(* handler of ffmpeg (308-311) or by the 30s timer, which leaves ffmpeg    *)
(* running; the screenshots ffmpeg wrote, or goes on to write, stay        *)
ExtractFailed ==
    /\ pc = "await_extract"
    /\ \E k \in 0..frameCount : frameFiles' = 1..k
    /\ StartCompressing(<< >>, {}, "safe", Frac(1, 2))
    /\ UNCHANGED <<record, loopVars, maxFrames, frameCount, envVars, visionVars, updateFailed, uploadVars,
                   transcodeVars>>
    /\ UNCHANGED clientVars

(* videoProcessor.js 570-603: the extraction resolved with the k frame     *)
(* files that exist                                                         *)
ExtractDone(k) ==
    /\ pc = "await_extract"
    /\ k \in 0..frameCount
    /\ frameFiles' = 1..k
    /\ IF k = 0
       THEN /\ StartCompressing(<< >>, {}, "safe", Frac(1, 2))
            /\ UNCHANGED frames
       ELSE /\ frames' = k
            /\ Emit(<<CallbackFrameEvent(Pct(30), "Analyzing frames...", NoFrame),
                      CallbackFrameEvent(FrameProgress(0, k), "Analyzing frame", NoFrame)>>)
            /\ pendingWrites' = pendingWrites \cup
                   {CallbackWrite(Pct(30)), CallbackWrite(FrameProgress(0, k))}
            /\ pc' = "await_frame"
            /\ UNCHANGED <<dbAck, awaitedWrite, verdict, confidence>>
    /\ UNCHANGED <<record, frameIdx, frameResults, explicitCount, violentCount,
                   classified, maxFrames, frameCount, envVars, visionVars, updateFailed, uploadVars, transcodeVars>>
    /\ UNCHANGED clientVars

(* videoProcessor.js 605-685: the race of analyzeFrame for frame i has     *)
(* settled.  A result is pushed and reported (614-642) and the frame file  *)
(* deleted (645-647); when the race rejected, or when unlinkSync throws    *)
(* after the push, the catch block pushes and reports errorFrameResult     *)
(* (653-673).  The loop then goes on to the next frame or to the overall   *)
(* status (687-725).                                                       *)
FrameDone(outcome, post) ==
    /\ pc = "await_frame"
    /\ outcome \in FrameOutcomes
    /\ post \in PostSteps
    /\ outcome = "timeout" => post = "ok"
    /\ LET i == frameIdx + 1
           tried == IF outcome = "timeout" THEN << >> ELSE <<FrameResult(i, outcome)>>
           caught == IF outcome = "timeout" \/ post = "unlinkFails"
                     THEN <<ErrorFrameResult(i)>> ELSE << >>
           pushed == tried \o caught
           results == frameResults \o pushed
           explicit == explicitCount + (IF outcome = "explicit" THEN 1 ELSE 0)
           violent == violentCount + (IF outcome = "violent" THEN 1 ELSE 0)
           resultEvs == [k \in 1..Len(pushed) |->
                           CallbackFrameEvent(FrameProgress(frameIdx, frames),
                                              "Analyzing frame", pushed[k])]
           resultWr == CallbackWrite(FrameProgress(frameIdx, frames))
       IN  /\ frameResults' = results
           /\ explicitCount' = explicit
           /\ violentCount' = violent
           /\ classified' = Append(classified, outcome)
           /\ frameFiles' = IF post = "unlinkFails" THEN frameFiles ELSE frameFiles \ {i}
           /\ frameIdx' = i
           /\ IF i < frames
              THEN /\ Emit(resultEvs \o
                        <<CallbackFrameEvent(FrameProgress(i, frames),
                                             "Analyzing frame", NoFrame)>>)
                   /\ pendingWrites' = pendingWrites \cup
                        {resultWr, CallbackWrite(FrameProgress(i, frames))}
                   /\ UNCHANGED <<pc, dbAck, awaitedWrite, verdict, confidence>>
              ELSE StartCompressing(resultEvs, {resultWr},
                                    OverallStatus(explicit, violent, frames),
                                    OverallConfidence(explicit, violent, frames))
    /\ UNCHANGED <<record, frames, maxFrames, frameCount, envVars, visionVars, updateFailed, uploadVars,
                   transcodeVars>>
    /\ UNCHANGED clientVars

(* lines 293-307: the compress write has settled, the transcoder is started *)
StartTranscode ==
    /\ pc = "await_compress_write"
    /\ dbAck # "none"
    /\ IF dbAck = "ok"
       THEN /\ pc' = "await_transcode"
            /\ UNCHANGED <<dbAck, awaitedWrite, emitted, chanVars>>
       ELSE Catch(<< >>)
    /\ UNCHANGED <<record, pendingWrites, analysisVars, envVars, visionVars, updateFailed, uploadVars, transcodeVars>>
    /\ UNCHANGED clientVars

(* lines 301-306 with videoProcessor.js 214-219: an ffmpeg progress report *)
TranscodeProgress(percent) ==
    /\ pc = "await_transcode"
    /\ percent \in TranscodePercents
    /\ percent >= lastPercent
    /\ reports < MaxReports
    /\ Emit(<<ProgressEvent(Pct(50) + (Min(percent, 100) * PScale * 4) \div 10,
                            "compressing")>>)
    /\ lastPercent' = percent
    /\ reports' = reports + 1
    /\ UNCHANGED <<pc, record, dbAck, awaitedWrite, pendingWrites, analysisVars,
                   envVars, visionVars, updateFailed, uploadVars, transcodeFailed>>
    /\ UNCHANGED clientVars

(* lines 309-311 with videoProcessor.js 220-223 *)
TranscodeEnd ==
    /\ pc = "await_transcode"
    /\ Emit(<<ProgressEvent(Pct(95), "finalizing")>>)
    /\ AwaitWrite([processingProgress |-> Pct(95)], "await_finalizing")
    /\ UNCHANGED <<record, pendingWrites, analysisVars, envVars, visionVars, updateFailed, uploadVars, transcodeVars>>
    /\ UNCHANGED clientVars

(* videoProcessor.js 224-227: the transcoder rejects, lines 334-343 *)
TranscodeError ==
    /\ pc = "await_transcode"
    /\ transcodeFailed' = TRUE
    /\ Catch(<< >>)
    /\ UNCHANGED <<record, pendingWrites, analysisVars, envVars, visionVars, updateFailed, uploadVars, lastPercent, reports>>
    /\ UNCHANGED clientVars

(* a final status that does not look at the verdict *)
FinalStatus_IgnoresVerdict == "completed"

(* const finalStatus (line 314) *)
FinalStatus == IF verdict = "flagged" THEN "flagged" ELSE "completed"

(* lines 313-322 *)
WriteFinal ==
    /\ pc = "await_finalizing"
    /\ dbAck # "none"
    /\ IF dbAck = "ok"
       THEN /\ AwaitWrite([status |-> FinalStatus, sensitivityStatus |-> verdict,
                           processedPath |-> TRUE, processingProgress |-> Pct(100)],
                          "await_final")
            /\ UNCHANGED <<emitted, chanVars>>
       ELSE Catch(<< >>)
    /\ UNCHANGED <<record, pendingWrites, analysisVars, envVars, visionVars, updateFailed, uploadVars, transcodeVars>>
    /\ UNCHANGED clientVars

(* lines 324-328 *)
Complete ==
    /\ pc = "await_final"
    /\ dbAck # "none"
    /\ IF dbAck = "ok"
       THEN /\ Emit(<<CompleteEvent(FinalStatus, Pct(100), FALSE)>>)
            /\ pc' = "done"
            /\ UNCHANGED <<dbAck, awaitedWrite>>
       ELSE Catch(<< >>)
    /\ UNCHANGED <<record, pendingWrites, analysisVars, envVars, visionVars, updateFailed, uploadVars, transcodeVars>>
    /\ UNCHANGED clientVars

(* lines 340-348 *)
CompleteFailed ==
    /\ pc = "await_failed"
    /\ dbAck # "none"
    /\ Emit(<<CompleteEvent("failed", NoProgress, TRUE)>>)
    /\ pc' = "done"
    /\ UNCHANGED <<record, dbAck, awaitedWrite, pendingWrites, analysisVars,
                   envVars, visionVars, updateFailed, uploadVars, transcodeVars>>
    /\ UNCHANGED clientVars

----------------------------------------------------------------------------
(* The database *)

AwaitSites == {"await_processing", "await_analyzing", "await_compress_write",
               "await_finalizing", "await_final", "await_failed"}

DbApplyAwaited ==
    /\ pc \in AwaitSites
    /\ dbAck = "none"
    /\ record' = ApplyUpdate(record, awaitedWrite)
    /\ dbAck' = "ok"
    /\ UNCHANGED <<pc, awaitedWrite, pendingWrites, emitted, chanVars, analysisVars,
                   envVars, visionVars, updateFailed, uploadVars, transcodeVars>>
    /\ UNCHANGED clientVars

DbFailAwaited ==
    /\ pc \in AwaitSites
    /\ dbAck = "none"
    /\ dbAck' = "err"
    /\ updateFailed' = TRUE
    /\ UNCHANGED <<pc, record, awaitedWrite, pendingWrites, emitted, chanVars, analysisVars,
                   envVars, visionVars, uploadVars, transcodeVars>>
    /\ UNCHANGED clientVars

(* line 283: Video.findByIdAndUpdate(...).catch(console.error) *)
DbApplyPending(w) ==
    /\ w \in pendingWrites
    /\ record' = ApplyUpdate(record, w)
    /\ pendingWrites' = pendingWrites \ {w}
    /\ UNCHANGED <<pc, dbAck, awaitedWrite, emitted, chanVars, analysisVars, envVars, visionVars, updateFailed, uploadVars,
                   transcodeVars>>
    /\ UNCHANGED clientVars

DbFailPending(w) ==
    /\ w \in pendingWrites
    /\ pendingWrites' = pendingWrites \ {w}
    /\ UNCHANGED <<pc, record, dbAck, awaitedWrite, emitted, chanVars, analysisVars, envVars, visionVars, updateFailed, uploadVars,
                   transcodeVars>>
    /\ UNCHANGED clientVars

----------------------------------------------------------------------------
(* socketHandler.js: the server side of a socket *)

JoinRoom(members, o) == members \cup {o}

LeaveAll(o) == [r \in RoomNames |-> rooms[r] \ {o}]

(* subscribe:video handler (lines 151-154), for the consumer's socket *)
ServerSubscribe(v) ==
    /\ v \in subMsgs
    /\ rooms' = [rooms EXCEPT ![VideoRoom(v)] = JoinRoom(@, Consumer)]
    /\ subMsgs' = subMsgs \ {v}
    /\ joins' = IF v = JobId THEN Min(joins + 1, 2) ELSE joins
    /\ UNCHANGED <<pipeVars, phaseVars, playerVars, chanVars, providerVars, videoId, frameVars, effectDirty, effectGen,
                   polling, polls, pollTicks, status, processingProgress, listeners,
                   maxInvocations, completeHandled, pushSeen, mounted, navTimer,
                   lateStart, okPolls, lastPolled>>

(* subscribe:video handler (lines 151-154), for the socket of the other     *)
(* organization asking for the job's room                                   *)
ForeignSubscribe ==
    /\ Foreigner \notin rooms[VideoRoom(JobId)]
    /\ rooms' = [rooms EXCEPT ![VideoRoom(JobId)] = JoinRoom(@, Foreigner)]
    /\ UNCHANGED <<pipeVars, phaseVars, playerVars, chanVars, subMsgs, providerVars, pageVars>>

----------------------------------------------------------------------------
(* SocketContext: SocketProvider *)

(* connect handler (lines 29-43); the server's connection handler has       *)
(* joined the organization room (server.js 141-148)                         *)
ClientConnect ==
    /\ link = "down"
    /\ conns < MaxConnects
    /\ link' = "up"
    /\ conns' = conns + 1
    /\ connectedNext' = TRUE
    /\ sentOnConn' = pendingSubs
    /\ subMsgs' = pendingSubs
    /\ rooms' = [rooms EXCEPT ![OrgRoom(OrganizationOf(Consumer))] = JoinRoom(@, Consumer)]
    /\ UNCHANGED <<pipeVars, phaseVars, playerVars, chanVars, connected, pendingSubs, pageVars>>

(* disconnect handler (lines 45-48); the server drops the socket from its   *)
(* rooms, what was in flight on the transport is lost                       *)
ClientDisconnect ==
    /\ link = "up"
    /\ link' = "down"
    /\ connectedNext' = FALSE
    /\ sentOnConn' = {}
    /\ subMsgs' = {}
    /\ inbox' = << >>
    /\ rooms' = LeaveAll(Consumer)
    /\ UNCHANGED <<pipeVars, phaseVars, playerVars, gotEvent, conns, connected, pendingSubs, pageVars>>

(* React renders SocketProvider with the queued `connected`; the context    *)
(* value holds new function objects, so the VideoUpload effect re-runs      *)
ProviderRender ==
    /\ connectedNext # connected
    /\ ~effectDirty
    /\ connected' = connectedNext
    /\ effectDirty' = (mounted /\ videoId # NoVideo)
    /\ playerDirty' = (playerDirty \/ video # NoRecord)
    /\ UNCHANGED <<pipeVars, phaseVars, video, playerSubscribed, chanVars, serverVars, link,
                   conns, connectedNext,
                   pendingSubs, sentOnConn, videoId, frameVars, effectGen, polling, polls,
                   pollTicks, status, processingProgress, listeners, maxInvocations,
                   completeHandled, pushSeen, mounted, navTimer, joins, lateStart,
                   okPolls, lastPolled>>

----------------------------------------------------------------------------
(* VideoUpload page *)

KnownPhases == {"idle", "uploading", "processing", "analyzing", "compressing",
                "finalizing", "completed", "failed", "flagged", "error"}

(* setStatus updater of the progress callback (lines 86-100) *)
NormalizePhase(prev, raw) ==
    IF raw \in KnownPhases THEN raw
    ELSE IF raw \in {"Extracting frames...", "Analyzing frames...", "Analyzing frame"}
    THEN "analyzing"
    ELSE prev

(* Texts are sequences of one-character strings *)
UpperCaseLetters ==
    <<"A", "B", "C", "D", "E", "F", "G", "H", "I", "J", "K", "L", "M", "N",
      "O", "P", "Q", "R", "S", "T", "U", "V", "W", "X", "Y", "Z">>
LowerCaseLetters ==
    <<"a", "b", "c", "d", "e", "f", "g", "h", "i", "j", "k", "l", "m", "n",
      "o", "p", "q", "r", "s", "t", "u", "v", "w", "x", "y", "z">>

ToLowerChar(c) ==
    IF \E k \in 1..Len(UpperCaseLetters) : UpperCaseLetters[k] = c
    THEN LowerCaseLetters[CHOOSE k \in 1..Len(UpperCaseLetters) : UpperCaseLetters[k] = c]
    ELSE c

(* String.prototype.toLowerCase *)
ToLowerCase(text) == [k \in 1..Len(text) |-> ToLowerChar(text[k])]

(* String.prototype.includes *)
Includes(text, part) ==
    \E k \in 0..(Len(text) - Len(part)) : SubSeq(text, k + 1, k + Len(part)) = part

(* the entries of `known` (line 92) as texts *)
PhaseText(phase) ==
    CASE phase = "idle" -> <<"i", "d", "l", "e">>
      [] phase = "uploading" -> <<"u", "p", "l", "o", "a", "d", "i", "n", "g">>
      [] phase = "processing" -> <<"p", "r", "o", "c", "e", "s", "s", "i", "n", "g">>
      [] phase = "analyzing" -> <<"a", "n", "a", "l", "y", "z", "i", "n", "g">>
      [] phase = "compressing" -> <<"c", "o", "m", "p", "r", "e", "s", "s", "i", "n", "g">>
      [] phase = "finalizing" -> <<"f", "i", "n", "a", "l", "i", "z", "i", "n", "g">>
      [] phase = "completed" -> <<"c", "o", "m", "p", "l", "e", "t", "e", "d">>
      [] phase = "failed" -> <<"f", "a", "i", "l", "e", "d">>
      [] phase = "flagged" -> <<"f", "l", "a", "g", "g", "e", "d">>
      [] phase = "error" -> <<"e", "r", "r", "o", "r">>

(* the literals of lines 94-98 *)
AnalyzingFrameText ==
    <<"a", "n", "a", "l", "y", "z", "i", "n", "g", " ", "f", "r", "a", "m",
      "e">>
ExtractingFrameText ==
    <<"e", "x", "t", "r", "a", "c", "t", "i", "n", "g", " ", "f", "r", "a",
      "m", "e">>
ExtractingFramesText ==
    <<"e", "x", "t", "r", "a", "c", "t", "i", "n", "g", " ", "f", "r", "a",
      "m", "e", "s">>
AnalyzingFramesText ==
    <<"a", "n", "a", "l", "y", "z", "i", "n", "g", " ", "f", "r", "a", "m",
      "e", "s">>
CompressText == <<"c", "o", "m", "p", "r", "e", "s", "s">>
FinalText == <<"f", "i", "n", "a", "l">>

(* an updater that compares the raw status as it came *)
NormalizeStatus_CaseSensitive(prev, raw, hasFrames) ==
    IF raw = << >> THEN (IF hasFrames THEN "analyzing" ELSE prev)
    ELSE LET s == raw
         IN  IF \E p \in KnownPhases : PhaseText(p) = s
             THEN CHOOSE p \in KnownPhases : PhaseText(p) = s
             ELSE IF \/ Includes(s, AnalyzingFrameText)
                     \/ Includes(s, ExtractingFrameText)
                     \/ Includes(s, ExtractingFramesText)
                     \/ Includes(s, AnalyzingFramesText)
             THEN "analyzing"
             ELSE IF Includes(s, CompressText) THEN "compressing"
             ELSE IF Includes(s, FinalText) THEN "finalizing"
             ELSE prev

(* setStatus updater of the progress callback (lines 86-100) on the text   *)
(* of data.status; hasFrames is data.currentFrame || data.totalFrames      *)
NormalizeStatus(prev, raw, hasFrames) ==
    IF raw = << >> THEN (IF hasFrames THEN "analyzing" ELSE prev)
    ELSE LET s == ToLowerCase(raw)
         IN  IF \E p \in KnownPhases : PhaseText(p) = s
             THEN CHOOSE p \in KnownPhases : PhaseText(p) = s
             ELSE IF \/ Includes(s, AnalyzingFrameText)
                     \/ Includes(s, ExtractingFrameText)
                     \/ Includes(s, ExtractingFramesText)
                     \/ Includes(s, AnalyzingFramesText)
             THEN "analyzing"
             ELSE IF Includes(s, CompressText) THEN "compressing"
             ELSE IF Includes(s, FinalText) THEN "finalizing"
             ELSE prev

(* the text of the status messages the server sends (upload.js 259-310,    *)
(* videoProcessor.js 514-635); the frame message stands for                *)
(* `Analyzing frame ${i + 1}/${frames.length}...`                          *)
RawText(statusMessage) ==
    CASE statusMessage = "processing" ->
            <<"p", "r", "o", "c", "e", "s", "s", "i", "n", "g">>
      [] statusMessage = "analyzing" ->
            <<"a", "n", "a", "l", "y", "z", "i", "n", "g">>
      [] statusMessage = "compressing" ->
            <<"c", "o", "m", "p", "r", "e", "s", "s", "i", "n", "g">>
      [] statusMessage = "finalizing" ->
            <<"f", "i", "n", "a", "l", "i", "z", "i", "n", "g">>
      [] statusMessage = "Extracting frames..." ->
            <<"E", "x", "t", "r", "a", "c", "t", "i", "n", "g", " ", "f",
              "r", "a", "m", "e", "s", ".", ".", ".">>
      [] statusMessage = "Analyzing frames..." ->
            <<"A", "n", "a", "l", "y", "z", "i", "n", "g", " ", "f", "r",
              "a", "m", "e", "s", ".", ".", ".">>
      [] statusMessage = "Analyzing frame" ->
            <<"A", "n", "a", "l", "y", "z", "i", "n", "g", " ", "f", "r",
              "a", "m", "e", " ", "1", "/", "2", ".", ".", ".">>
      [] statusMessage = "No API configured - flagging for review" ->
            <<"N", "o", " ", "A", "P", "I", " ", "c", "o", "n", "f", "i",
              "g", "u", "r", "e", "d", " ", "-", " ", "f", "l", "a", "g",
              "g", "i", "n", "g", " ", "f", "o", "r", " ", "r", "e", "v",
              "i", "e", "w">>
      [] statusMessage = "Video too short" ->
            <<"V", "i", "d", "e", "o", " ", "t", "o", "o", " ", "s", "h",
              "o", "r", "t">>
      [] OTHER -> << >>

ServerMessages ==
    {"processing",
     "analyzing",
     "compressing",
     "finalizing",
     "Extracting frames...",
     "Analyzing frames...",
     "Analyzing frame",
     "No API configured - flagging for review",
     "Video too short"}

(* data.status of the events handed to the progress callback, as texts *)
RawStatuses ==
    {<<>>,
     <<"i", "d", "l", "e">>,
     <<"u", "p", "l", "o", "a", "d", "i", "n", "g">>,
     <<"U", "p", "l", "o", "a", "d", "i", "n", "g">>,
     <<"p", "r", "o", "c", "e", "s", "s", "i", "n", "g">>,
     <<"P", "r", "o", "c", "e", "s", "s", "i", "n", "g">>,
     <<"a", "n", "a", "l", "y", "z", "i", "n", "g">>,
     <<"A", "N", "A", "L", "Y", "Z", "I", "N", "G">>,
     <<"c", "o", "m", "p", "r", "e", "s", "s", "i", "n", "g">>,
     <<"f", "i", "n", "a", "l", "i", "z", "i", "n", "g">>,
     <<"c", "o", "m", "p", "l", "e", "t", "e", "d">>,
     <<"C", "o", "m", "p", "l", "e", "t", "e", "d">>,
     <<"f", "a", "i", "l", "e", "d">>,
     <<"f", "l", "a", "g", "g", "e", "d">>,
     <<"e", "r", "r", "o", "r">>,
     <<"E", "x", "t", "r", "a", "c", "t", "i", "n", "g", " ", "f", "r", "a",
       "m", "e", "s", ".", ".", ".">>,
     <<"A", "n", "a", "l", "y", "z", "i", "n", "g", " ", "f", "r", "a", "m",
       "e", "s", ".", ".", ".">>,
     <<"A", "n", "a", "l", "y", "z", "i", "n", "g", " ", "f", "r", "a", "m",
       "e", " ", "1", "/", "2", ".", ".", ".">>,
     <<"e", "x", "t", "r", "a", "c", "t", "i", "n", "g", " ", "f", "r", "a",
       "m", "e">>,
     <<"N", "o", " ", "A", "P", "I", " ", "c", "o", "n", "f", "i", "g", "u",
       "r", "e", "d", " ", "-", " ", "f", "l", "a", "g", "g", "i", "n", "g",
       " ", "f", "o", "r", " ", "r", "e", "v", "i", "e", "w">>,
     <<"V", "i", "d", "e", "o", " ", "t", "o", "o", " ", "s", "h", "o", "r",
       "t">>,
     <<"C", "o", "m", "p", "r", "e", "s", "s", "i", "n", "g", " ", "v", "i",
       "d", "e", "o">>,
     <<"d", "e", "c", "o", "m", "p", "r", "e", "s", "s">>,
     <<"F", "i", "n", "a", "l", "i", "z", "i", "n", "g", " ", "o", "u", "t",
       "p", "u", "t">>,
     <<"F", "I", "N", "A", "L">>,
     <<"c", "o", "m", "p", "r", "e", "s", "s", " ", "f", "i", "n", "a", "l">>,
     <<"f", "i", "n", "a", "l", " ", "a", "n", "a", "l", "y", "z", "i", "n",
       "g", " ", "f", "r", "a", "m", "e">>,
     <<"A", "n", "a", "l", "y", "z", "i", "n", "g", " ", "t", "h", "e", " ",
       "f", "r", "a", "m", "e", "s">>,
     <<"f", "r", "a", "m", "e">>,
     <<"s", "a", "f", "e">>,
     <<"p", "r", "o", "c", "e", "s", "s", "i", "n", "g", " ">>,
     <<"d", "o", "n", "e">>}

(* data.frameResult && data.frameResult.frameNumber (line 131) *)
HasFrameResult(frame) == frame # NoFrame /\ frame.frameNumber # 0

(* existingFrameResults (line 120) *)
ExistingFrameResults(ref, prev) == IF Len(ref) > 0 THEN ref ELSE prev

(* Array.prototype.sort with the frameNumber comparator (line 138): stable *)
InsertFrame(x, sorted) ==
    LET before == SelectSeq(sorted, LAMBDA f : f.frameNumber < x.frameNumber)
        after  == SelectSeq(sorted, LAMBDA f : f.frameNumber >= x.frameNumber)
    IN  before \o <<x>> \o after

RECURSIVE SortFrames(_)
SortFrames(fs) ==
    IF Len(fs) <= 1 THEN fs ELSE InsertFrame(Head(fs), SortFrames(Tail(fs)))

(* an update that appends without removing the held entry *)
AddFrameResult_KeepsHeld(existing, frame) ==
    SortFrames(Append(existing, frame))

(* lines 135-138: remove the held entry of the frame number, add, sort *)
AddFrameResult(existing, frame) ==
    SortFrames(Append(SelectSeq(existing,
                                LAMBDA f : f.frameNumber # frame.frameNumber),
                      frame))

(* lines 104-156 of the progress callback: setAnalysisDetails and the ref *)
FrameUpdate(e) ==
    /\ lastData' = [frameData |-> e.frameData, frame |-> e.frame]
    /\ IF e.frameData \/ e.frame # NoFrame
       THEN LET existing == ExistingFrameResults(frameResultsRef, analysisDetails)
                updated == IF HasFrameResult(e.frame)
                           THEN AddFrameResult(existing, e.frame)
                           ELSE existing
            IN  /\ analysisDetails' = updated
                /\ frameResultsRef' = updated
       ELSE UNCHANGED <<analysisDetails, frameResultsRef>>

(* the progress callback (lines 82-158) *)
OnProgress(e) ==
    /\ processingProgress' = e.progress
    /\ status' = NormalizePhase(status, e.status)
    /\ FrameUpdate(e)

(* effect cleanup (lines 177-184) and registration (lines 82, 160) of the   *)
(* socket callbacks                                                         *)
(* a cleanup that leaves the callbacks on the socket *)
CleanupListeners_KeepsCallbacks(n) == n

CleanupListeners(n) == IF n > 0 THEN n - 1 ELSE 0
RegisterListeners(n) == n + 1

(* handleSubmit after the upload response (lines 250-260); the response is  *)
(* sent once processVideoAsync has been called (upload.js 224-230).  The    *)
(* render it causes also renders a queued `connected`.                      *)
UploadResponse ==
    /\ uploadResponse = 201
    /\ mounted
    /\ videoId = NoVideo
    /\ videoId' = JobId
    /\ frameResultsRef' = << >>
    /\ analysisDetails' = << >>
    /\ UNCHANGED lastData
    /\ status' = "processing"
    /\ effectDirty' = TRUE
    /\ connected' = connectedNext
    /\ UNCHANGED <<pipeVars, phaseVars, playerVars, chanVars, serverVars, link, conns, connectedNext,
                   pendingSubs, sentOnConn, effectGen, polling,
                   polls, pollTicks, processingProgress, listeners, maxInvocations,
                   completeHandled, pushSeen, mounted, navTimer, joins, lateStart,
                   okPolls, lastPolled>>

(* the effect of lines 47-186: cleanup of the previous instance, then       *)
(* subscribeToVideo (SocketContext 72-81), startPolling and the callbacks   *)
RunEffect ==
    /\ effectDirty
    /\ mounted
    /\ effectDirty' = FALSE
    /\ effectGen' = effectGen + 1
    /\ pendingSubs' = pendingSubs \cup {videoId}
    /\ IF connected /\ link = "up"
       THEN /\ subMsgs' = subMsgs \cup {videoId}
            /\ sentOnConn' = sentOnConn \cup {videoId}
       ELSE UNCHANGED <<subMsgs, sentOnConn>>
    /\ polling' = TRUE
    /\ listeners' = RegisterListeners(CleanupListeners(listeners))
    /\ lateStart' = IF effectGen = 0 THEN pc = "done" ELSE lateStart
    /\ UNCHANGED <<pipeVars, phaseVars, playerVars, chanVars, rooms, link, conns, connected, connectedNext,
                   videoId, frameVars, polls, pollTicks, status, processingProgress,
                   maxInvocations, completeHandled, pushSeen, mounted, navTimer,
                   joins, okPolls, lastPolled>>

(* the socket hands a received event to the registered callbacks:           *)
(* progress callback (lines 82-100), complete callback (lines 160-175)      *)
ClientReceive ==
    /\ inbox # << >>
    /\ LET e == emitted[Head(inbox)]
           handled == listeners > 0
       IN  /\ inbox' = Tail(inbox)
           /\ maxInvocations' = Max(maxInvocations, listeners)
           /\ pushSeen' = (pushSeen \/ handled)
           /\ IF ~handled
              THEN UNCHANGED <<processingProgress, status, navTimer, polling,
                               completeHandled, frameVars>>
              ELSE IF e.kind = "video:progress"
              THEN /\ OnProgress(e)
                   /\ UNCHANGED <<navTimer, polling, completeHandled>>
              ELSE /\ processingProgress' = Pct(100)
                   /\ UNCHANGED frameVars
                   /\ status' = e.status
                   /\ navTimer' = (navTimer \/ e.status \in {"completed", "flagged"})
                   /\ polling' = FALSE
                   /\ completeHandled' = completeHandled + listeners
    /\ UNCHANGED <<pipeVars, phaseVars, playerVars, gotEvent, serverVars, providerVars, videoId,
                   effectDirty, effectGen, polls, pollTicks, listeners, mounted,
                   joins, lateStart, okPolls, lastPolled>>

(* The data a video:progress event of the observed job may carry: with or  *)
(* without currentFrame / totalFrames, with or without a frameResult       *)
FramePayloads ==
    {NoFrame}
      \cup {FrameResult(i, o) : i \in 0..MaxFrameNo, o \in FrameOutcomes \ {"timeout"}}
      \cup {ErrorFrameResult(i) : i \in 0..MaxFrameNo}

ProgressData ==
    {FrameEvent(Pct(40), "Analyzing frame", fd, fr) :
        fd \in BOOLEAN, fr \in FramePayloads}

(* the socket hands a video:progress event of the job to the progress      *)
(* callback of the page (lines 82-158)                                     *)
ProgressCallback(e) ==
    /\ listeners > 0
    /\ mounted
    /\ OnProgress(e)
    /\ UNCHANGED <<pipeVars, phaseVars, playerVars, chanVars, serverVars, providerVars, videoId, effectDirty,
                   effectGen, polling, polls, pollTicks, listeners, maxInvocations,
                   completeHandled, pushSeen, mounted, navTimer, joins, lateStart,
                   okPolls, lastPolled>>

(* the socket hands the page a video:progress event of the job whose      *)
(* status is the text raw (lines 82-158); the event carries frame counters *)
(* or not, and no frame result                                             *)
RawProgressCallback(raw, hasFrames) ==
    /\ listeners > 0
    /\ mounted
    /\ raw \in RawStatuses
    /\ hasFrames \in BOOLEAN
    /\ processingProgress' = Pct(40)
    /\ status' = NormalizeStatus(status, raw, hasFrames)
    /\ rawStatus' = raw
    /\ prevStatus' = status
    /\ FrameUpdate([frameData |-> hasFrames, frame |-> NoFrame])
    /\ UNCHANGED <<pipeVars, playerVars, chanVars, serverVars, providerVars, videoId,
                   effectDirty, effectGen, polling, polls, pollTicks, listeners,
                   maxInvocations, completeHandled, pushSeen, mounted, navTimer, joins,
                   lateStart, okPolls, lastPolled>>

(* navigate(`/video/${videoId}`) unmounts the page: effect cleanup *)
NavigateTimeout ==
    /\ navTimer
    /\ navTimer' = FALSE
    /\ mounted' = FALSE
    /\ polling' = FALSE
    /\ effectDirty' = FALSE
    /\ listeners' = IF mounted THEN CleanupListeners(listeners) ELSE listeners
    /\ UNCHANGED <<pipeVars, phaseVars, playerVars, chanVars, serverVars, providerVars, videoId, frameVars, effectGen,
                   polls, pollTicks, status, processingProgress, maxInvocations,
                   completeHandled, pushSeen, joins, lateStart, okPolls, lastPolled>>

(* setInterval tick (lines 56-58): the status query is sent *)
PollTick ==
    /\ polling
    /\ pollTicks < MaxPolls
    /\ \A q \in polls : q.gen # effectGen
    /\ polls' = polls \cup {[gen |-> effectGen, stage |-> "req",
                             status |-> "none", progress |-> 0]}
    /\ pollTicks' = pollTicks + 1
    /\ UNCHANGED <<pipeVars, phaseVars, playerVars, chanVars, serverVars, providerVars, videoId, frameVars, effectDirty,
                   effectGen, polling, status, processingProgress, listeners,
                   maxInvocations, completeHandled, pushSeen, mounted, navTimer,
                   joins, lateStart, okPolls, lastPolled>>

(* GET /api/videos/:id (upload.js 513-530) reads the record *)
PollServe(q) ==
    /\ q \in polls
    /\ q.stage = "req"
    /\ polls' = (polls \ {q}) \cup
                  {[gen |-> q.gen, stage |-> "resp", status |-> record.status,
                    progress |-> record.processingProgress]}
    /\ UNCHANGED <<pipeVars, phaseVars, playerVars, chanVars, serverVars, providerVars, videoId, frameVars, effectDirty,
                   effectGen, polling, pollTicks, status, processingProgress,
                   listeners, maxInvocations, completeHandled, pushSeen, mounted,
                   navTimer, joins, lateStart, okPolls, lastPolled>>

(* the query fails (upload.js 531-537, lines 74-76: ignored) *)
PollFail(q) ==
    /\ q \in polls
    /\ polls' = polls \ {q}
    /\ UNCHANGED <<pipeVars, phaseVars, playerVars, chanVars, serverVars, providerVars, videoId, frameVars, effectDirty,
                   effectGen, polling, pollTicks, status, processingProgress,
                   listeners, maxInvocations, completeHandled, pushSeen, mounted,
                   navTimer, joins, lateStart, okPolls, lastPolled>>

(* a test that also takes 'processing' for the end of the job *)
PollFinished_CountsProcessing(polled) ==
    polled \in {"completed", "flagged", "failed", "processing"}

(* ['completed', 'flagged', 'failed'].includes(v.status) (line 67) *)
PollFinished(polled) == polled \in {"completed", "flagged", "failed"}

(* clearInterval(pollInterval) in the interval callback: pollInterval is    *)
(* the variable of the effect instance that started the interval            *)
StopPolling(gen) == IF gen = effectGen THEN FALSE ELSE polling

(* the interval callback after the response (lines 59-73) *)
PollResponse(q) ==
    /\ q \in polls
    /\ q.stage = "resp"
    /\ polls' = polls \ {q}
    /\ okPolls' = Min(okPolls + 1, MaxPolls)
    /\ lastPolled' = q.status
    /\ IF mounted
       THEN /\ processingProgress' = q.progress
            /\ status' = q.status
       ELSE UNCHANGED <<processingProgress, status>>
    /\ IF q.status \in {"completed", "flagged"} /\ mounted
       THEN /\ mounted' = FALSE
            /\ polling' = FALSE
            /\ effectDirty' = FALSE
            /\ listeners' = CleanupListeners(listeners)
       ELSE /\ polling' = IF PollFinished(q.status)
                          THEN StopPolling(q.gen) ELSE polling
            /\ UNCHANGED <<mounted, effectDirty, listeners>>
    /\ UNCHANGED <<pipeVars, phaseVars, playerVars, chanVars, serverVars, providerVars, videoId, frameVars, effectGen,
                   pollTicks, maxInvocations, completeHandled, pushSeen, navTimer,
                   joins, lateStart>>

----------------------------------------------------------------------------

(* The pipeline run of one job, with the socket of another organization   *)
Next ==
    \/ MetadataFailed
    \/ MetadataDone
    \/ CreateFailed
    \/ StartProcessing
    \/ StartAnalyzing
    \/ BeginAnalysis
    \/ ExtractFailed
    \/ \E k \in 0..MaxFramesFor(MaxDuration) : ExtractDone(k)
    \/ \E o \in FrameOutcomes, post \in PostSteps : FrameDone(o, post)
    \/ StartTranscode
    \/ \E p \in TranscodePercents : TranscodeProgress(p)
    \/ TranscodeEnd
    \/ TranscodeError
    \/ WriteFinal
    \/ Complete
    \/ CompleteFailed
    \/ DbApplyAwaited
    \/ DbFailAwaited
    \/ \E w \in pendingWrites : DbApplyPending(w)
    \/ \E w \in pendingWrites : DbFailPending(w)
    \/ ForeignSubscribe

Init == InitPipeline /\ InitClient

Spec == Init /\ [][Next]_vars

(* A deployment without a detection API: analyzeVideoSensitivity returns   *)
(* at once and the duration plays no part                                  *)
InitNoBackend == Init /\ ~hasBackend /\ duration = MaxDuration

PipelineNoBackend ==
    \/ MetadataFailed
    \/ MetadataDone
    \/ CreateFailed
    \/ StartProcessing
    \/ StartAnalyzing
    \/ BeginAnalysis
    \/ StartTranscode
    \/ \E p \in TranscodePercents : TranscodeProgress(p)
    \/ TranscodeEnd
    \/ TranscodeError
    \/ WriteFinal
    \/ Complete
    \/ CompleteFailed
    \/ DbApplyAwaited
    \/ DbFailAwaited
    \/ \E w \in pendingWrites : DbApplyPending(w)
    \/ \E w \in pendingWrites : DbFailPending(w)

(* The pipeline with the browser consumer and its socket; the status poll  *)
(* of the page is left out                                                 *)
NextClient ==
    \/ PipelineNoBackend
    \/ \E v \in VideoIds : ServerSubscribe(v)
    \/ ClientConnect
    \/ ClientDisconnect
    \/ ProviderRender
    \/ UploadResponse
    \/ RunEffect
    \/ ClientReceive
    \/ NavigateTimeout

SpecClient == InitNoBackend /\ [][NextClient]_vars

(* The pipeline with the browser consumer and its status poll, on a socket *)
(* that connects once                                                      *)
NextPolling ==
    \/ PipelineNoBackend
    \/ \E v \in VideoIds : ServerSubscribe(v)
    \/ ClientConnect
    \/ ProviderRender
    \/ UploadResponse
    \/ RunEffect
    \/ ClientReceive
    \/ NavigateTimeout
    \/ PollTick
    \/ \E q \in polls : PollServe(q)
    \/ \E q \in polls : PollFail(q)
    \/ \E q \in polls : PollResponse(q)

(* Uploads of every length up to MaxProbe seconds on a deployment with a   *)
(* detection API, up to the request for frames; the extraction is taken    *)
(* to reject                                                               *)
NextSampling ==
    \/ PipelineNoBackend
    \/ ExtractFailed

InitSampling == InitPipelineFor(0..MaxProbe) /\ InitClient /\ hasBackend /\ pendingSubs = {}

SpecSampling == InitSampling /\ [][NextSampling]_vars

(* The overall status of analyzeVideoSensitivity (lines 687-725) as a      *)
(* function of the counts the frame loop has left behind                   *)
Aggregate ==
    /\ pc = "aggregate"
    /\ verdict' = OverallStatus(explicitCount, violentCount, frames)
    /\ confidence' = OverallConfidence(explicitCount, violentCount, frames)
    /\ pc' = "aggregated"
    /\ UNCHANGED <<record, dbAck, awaitedWrite, pendingWrites, emitted, chanVars,
                   uploadVars, loopVars, maxFrames, frameCount, frameFiles, envVars, visionVars,
                   updateFailed, transcodeVars>>
    /\ UNCHANGED clientVars

NextAggregate == Aggregate

(* classifications of n frames of which the first are explicit and the    *)
(* next violent                                                            *)
LoopOutcomes(n, explicit, violent) ==
    [k \in 1..n |-> IF k <= explicit THEN "explicit"
                    ELSE IF k <= explicit + violent THEN "violent"
                    ELSE "clean"]

(* the frame loop has ended: frames.length, the records and the two        *)
(* counts; what the overall status does not read is left as it starts      *)
InitAggregate ==
    /\ InitClient
    /\ pc = "aggregate"
    /\ created = TRUE
    /\ uploadResponse = 201
    /\ record = InitialRecord
    /\ dbAck = "none"
    /\ awaitedWrite = NoWrite
    /\ pendingWrites = {}
    /\ emitted = << >>
    /\ hasBackend = TRUE
    /\ duration = MaxDuration
    /\ frames \in 1..MaxSampled
    /\ frameIdx = frames
    /\ explicitCount \in 0..frames
    /\ violentCount \in 0..(frames - explicitCount)
    /\ classified = LoopOutcomes(frames, explicitCount, violentCount)
    /\ frameResults = [k \in 1..frames |-> FrameResult(k, classified[k])]
    /\ frameFiles = {}
    /\ safeSearch = NoAnnotation
    /\ frameAnalysis = NoAnalysis
    /\ verdict = "none"
    /\ confidence = NoConfidence
    /\ maxFrames = frames
    /\ frameCount = frames
    /\ lastPercent = 0
    /\ reports = 0
    /\ transcodeFailed = FALSE
    /\ updateFailed = FALSE

SpecAggregate == InitAggregate /\ [][NextAggregate]_vars

(* The page of an accepted upload, receiving any sequence of progress      *)
(* events of its job                                                       *)
NextFrames ==
    \/ MetadataDone
    \/ StartProcessing
    \/ UploadResponse
    \/ RunEffect
    \/ \E e \in ProgressData : ProgressCallback(e)

InitFrames == Init /\ hasBackend /\ duration = MaxDuration /\ pendingSubs = {}

SpecFrames == InitFrames /\ [][NextFrames]_vars

InitPolling == InitNoBackend /\ pendingSubs = {}

SpecPolling == InitPolling /\ [][NextPolling]_vars

(* analyzeFrame (lines 331-370) once safeSearchDetection has resolved:     *)
(* the annotation is turned into the frame analysis, a missing one falls   *)
(* through to analyzeFrameBasic                                            *)
AnalyzeFrameVision ==
    /\ frameAnalysis = NoAnalysis
    /\ frameAnalysis' = IF safeSearch = NoAnnotation
                        THEN BasicAnalysis
                        ELSE VisionAnalysis(safeSearch)
    /\ UNCHANGED <<pc, record, dbAck, awaitedWrite, pendingWrites, emitted, chanVars,
                   uploadVars, analysisVars, envVars, safeSearch, updateFailed,
                   transcodeVars>>
    /\ UNCHANGED clientVars

NextVision == AnalyzeFrameVision

(* one frame of a job is handed to analyzeFrame; the API answers with any  *)
(* annotation, or with none                                                *)
InitVision ==
    /\ InitClient
    /\ pendingSubs = {}
    /\ pc = "await_frame"
    /\ created = TRUE
    /\ uploadResponse = 201
    /\ record = InitialRecord
    /\ dbAck = "none"
    /\ awaitedWrite = NoWrite
    /\ pendingWrites = {}
    /\ emitted = << >>
    /\ hasBackend = TRUE
    /\ duration = MaxDuration
    /\ frames = 1
    /\ frameIdx = 0
    /\ frameResults = << >>
    /\ verdict = "none"
    /\ confidence = NoConfidence
    /\ maxFrames = 1
    /\ frameCount = 1
    /\ explicitCount = 0
    /\ violentCount = 0
    /\ classified = << >>
    /\ frameFiles = {1}
    /\ safeSearch \in Annotations \cup {NoAnnotation}
    /\ frameAnalysis = NoAnalysis
    /\ lastPercent = 0
    /\ reports = 0
    /\ transcodeFailed = FALSE
    /\ updateFailed = FALSE

SpecVision == InitVision /\ [][NextVision]_vars

(* The page of an accepted upload, receiving progress events with any of   *)
(* the raw statuses                                                        *)
NextPhase ==
    \/ MetadataDone
    \/ StartProcessing
    \/ UploadResponse
    \/ RunEffect
    \/ \E raw \in RawStatuses, hasFrames \in BOOLEAN : RawProgressCallback(raw, hasFrames)

InitPhase == Init /\ hasBackend /\ duration = MaxDuration /\ pendingSubs = {}

SpecPhase == InitPhase /\ [][NextPhase]_vars

----------------------------------------------------------------------------
(* VideoPlayer page *)

(* the three branches of the player area (lines 165-202) *)
PlayerView(videoStatus) ==
    IF videoStatus \in {"completed", "flagged"} THEN "player"
    ELSE IF videoStatus \in {"processing", "uploading"} THEN "processing"
    ELSE "failed"

(* the condition of the subscription effect (line 32) *)
PlayerFollows(videoStatus) == videoStatus \in {"processing", "uploading"}

(* fetchVideo (lines 57-67) with GET /api/videos/:id: the record is read   *)
(* and set as `video`; called on mount and by the callbacks of the effect. *)
(* The effect depends on video._id and video.status (line 55).             *)
FetchVideo ==
    /\ created
    /\ video' = record.status
    /\ playerDirty' = (playerDirty \/ video' # video)
    /\ UNCHANGED <<pipeVars, phaseVars, playerSubscribed, chanVars, serverVars,
                   providerVars, pageVars>>

(* the effect of lines 31-55: cleanup of the previous instance, then       *)
(* subscribeToVideo (SocketContext 72-81) when the job is taken to be      *)
(* processing                                                              *)
PlayerEffect ==
    /\ playerDirty
    /\ playerDirty' = FALSE
    /\ IF PlayerFollows(video)
       THEN /\ playerSubscribed' = TRUE
            /\ pendingSubs' = pendingSubs \cup {JobId}
            /\ IF connected /\ link = "up"
               THEN /\ subMsgs' = subMsgs \cup {JobId}
                    /\ sentOnConn' = sentOnConn \cup {JobId}
               ELSE UNCHANGED <<subMsgs, sentOnConn>>
       ELSE /\ playerSubscribed' = FALSE
            /\ UNCHANGED <<pendingSubs, subMsgs, sentOnConn>>
    /\ UNCHANGED <<pipeVars, phaseVars, video, chanVars, rooms, link, conns, connected,
                   connectedNext, pageVars>>

(* The pipeline with a browser that opens the VideoPlayer page of the job *)
NextPlayer ==
    \/ PipelineNoBackend
    \/ \E v \in VideoIds : ServerSubscribe(v)
    \/ ClientConnect
    \/ ProviderRender
    \/ FetchVideo
    \/ PlayerEffect

InitPlayer == InitNoBackend /\ pendingSubs = {}

SpecPlayer == InitPlayer /\ [][NextPlayer]_vars

(* The pipeline run of one job on a deployment with a detection API *)
NextAnalysis ==
    \/ PipelineNoBackend
    \/ ExtractFailed
    \/ \E k \in 0..MaxFramesFor(MaxDuration) : ExtractDone(k)
    \/ \E o \in FrameOutcomes, post \in PostSteps : FrameDone(o, post)

InitAnalysis == Init /\ hasBackend /\ pendingSubs = {}

SpecAnalysis == InitAnalysis /\ [][NextAnalysis]_vars

----------------------------------------------------------------------------
(* Properties of the pipeline *)

NewEventIndices == (Len(emitted) + 1)..Len(emitted')

CompleteEvents == {k \in 1..Len(emitted) : emitted[k].kind = "video:complete"}

(* The stage a progress event stands for: the callback's human messages    *)
(* are persisted as 'analyzing' (line 283).                                *)
EventStage(statusMessage) ==
    IF statusMessage \in {"processing", "analyzing", "compressing", "finalizing"}
    THEN statusMessage
    ELSE "analyzing"

StageRank(stage) ==
    CASE stage = "uploading"  -> 0
      [] stage = "processing" -> 1
      [] stage = "analyzing"  -> 2
      [] stage = "compressing" -> 3
      [] stage = "finalizing" -> 4
      [] OTHER -> 5

(* C1: every job emits exactly one video:complete event, and when it is    *)
(* emitted the persisted record already holds the stage the event carries. *)
C1_TerminalPersistedBeforeEvent ==
    /\ [](pc = "done" => Cardinality(CompleteEvents) = 1)
    /\ [][\A k \in NewEventIndices :
            emitted'[k].kind = "video:complete"
                => record.status = emitted'[k].status]_vars

(* C2: once the run has ended and no write is outstanding, the persisted   *)
(* stage is terminal.                                                      *)
C2_RunEndsInPersistedTerminalStage ==
    (pc = "done" /\ pendingWrites = {}) => record.status \in TerminalStages

(* C3: when the transcoder failed, the run ends with persisted stage       *)
(* failed and a terminal event carrying failed.                            *)
C3_TranscodeFailureEndsFailed ==
    (transcodeFailed /\ pc = "done" /\ pendingWrites = {})
        => /\ record.status = "failed"
           /\ \A k \in CompleteEvents : emitted[k].status = "failed"

(* C4: when a progress event is emitted, the record already holds the      *)
(* event's stage and a progress at least the event's.                      *)
C4_PersistBeforeProgressEvent ==
    [][\A k \in NewEventIndices :
          emitted'[k].kind = "video:progress"
              => /\ record.status = EventStage(emitted'[k].status)
                 /\ record.processingProgress >= emitted'[k].progress]_vars

(* C5: the persisted stage only moves forward and never leaves a terminal  *)
(* stage.                                                                  *)
C5_StageMovesForward ==
    [][/\ StageRank(record'.status) >= StageRank(record.status)
       /\ record.status \in TerminalStages => record'.status = record.status]_vars

----------------------------------------------------------------------------
(* Properties of the channel and of the consumer *)

(* C7: no event of the job reaches an observer of another organization,    *)
(* and no such observer is in the room of the job.                         *)
C7_TenantIsolation ==
    \A o \in Observers :
        (gotEvent[o] \/ o \in rooms[VideoRoom(JobId)])
            => OrganizationOf(o) = OrganizationOf(JobId)

(* C8: whenever the consumer's socket is connected, a subscribe has been   *)
(* sent on the current connection for every recorded intent.               *)
C8_IntentsSubscribedWhileConnected ==
    link = "up" => pendingSubs \subseteq sentOnConn

(* C9: no received event is handed to more than one callback of the page,  *)
(* no event is in flight to the consumer twice, and the terminal event is  *)
(* handled at most once, however often subscribe was sent.                 *)
C9_AtMostOnceDelivery ==
    /\ maxInvocations <= 1
    /\ completeHandled <= 1
    /\ \A i, j \in 1..Len(inbox) : i # j => inbox[i] # inbox[j]

(* the terminal event was handled after subscribe had been handled twice   *)
(* for the job, the second connection replaying the intent                 *)
C9_Witness ==
    /\ completeHandled = 1
    /\ joins = 2
    /\ conns = 2

(* C10: for a consumer that began to observe after the run had ended and   *)
(* got no push event, the first handled poll response that carries a       *)
(* terminal stage sets the phase to it and stops the polling.              *)
C10_LatePollReachesTerminalAndStops ==
    [][(lateStart /\ ~pushSeen /\ okPolls = 0 /\ okPolls' = 1
            /\ lastPolled' \in TerminalStages)
        => (status' = lastPolled' /\ ~polling')]_vars

(* C11: the status poll of the page is cancelled only in a step in which   *)
(* a poll response carrying a terminal phase is handled, or when the        *)
(* terminal push event has been handled; every terminal push event carries  *)
(* a terminal phase.                                                        *)
C11_PollCancelledOnlyOnTerminal ==
    /\ [](\A k \in CompleteEvents : emitted[k].status \in TerminalStages)
    /\ [][(polling /\ ~polling')
            => \/ completeHandled' > 0
               \/ (okPolls' > okPolls /\ lastPolled' \in TerminalStages)]_vars

(* the poll alone saw the job fail and was cancelled on the mounted page *)
C11_Witness ==
    /\ effectGen > 0
    /\ mounted
    /\ ~polling
    /\ okPolls > 0
    /\ lastPolled = "failed"
    /\ completeHandled = 0

(* C12: the accumulated frame records hold at most one entry per frame     *)
(* number, in ascending order of frame number; they change only by an      *)
(* event that carries a frame payload, which then holds the place of its   *)
(* frame number while every entry of another frame number is kept.         *)
C12_FrameRecordsAccumulate ==
    /\ [](\A i, j \in 1..Len(analysisDetails) :
            i < j => analysisDetails[i].frameNumber < analysisDetails[j].frameNumber)
    /\ [](HasFrameResult(lastData.frame)
            => \E k \in 1..Len(analysisDetails) : analysisDetails[k] = lastData.frame)
    /\ [][analysisDetails' # analysisDetails
            => /\ HasFrameResult(lastData'.frame)
               /\ \A k \in 1..Len(analysisDetails) :
                     analysisDetails[k].frameNumber # lastData'.frame.frameNumber
                       => \E m \in 1..Len(analysisDetails') :
                            analysisDetails'[m] = analysisDetails[k]
               /\ \A m \in 1..Len(analysisDetails') :
                     \/ analysisDetails'[m] = lastData'.frame
                     \/ \E k \in 1..Len(analysisDetails) :
                          analysisDetails[k] = analysisDetails'[m]]_vars

(* three frames are held, an error record among them, and the event        *)
(* handled last was for frame 1                                            *)
C12_Witness ==
    /\ Len(analysisDetails) = MaxFrameNo
    /\ \E k \in 1..Len(analysisDetails) : analysisDetails[k].error
    /\ HasFrameResult(lastData.frame)
    /\ lastData.frame.frameNumber = 1

(* C13: when the verdict was computed from analysed frames, the frame      *)
(* records of the verdict carry each frame number of 1..frames.length      *)
(* exactly once.                                                           *)
C13_FrameNumbersExact ==
    (verdict # "none" /\ frames > 0)
        => /\ Len(frameResults) = frames
           /\ {frameResults[k].frameNumber : k \in 1..Len(frameResults)} = 1..frames

(* C14: a frame whose classification timed out or whose backend calls     *)
(* failed is recorded as an error frame (not explicit, not violent,        *)
(* confidence 0, with an error cause), and every frame of the job is       *)
(* classified all the same.                                                *)
C14_FailedFrameRecordedAsError ==
    /\ \A i \in 1..Len(classified) :
          classified[i] \in {"timeout", "unavailable"}
            => /\ \E k \in 1..Len(frameResults) : frameResults[k].frameNumber = i
               /\ \A k \in 1..Len(frameResults) :
                     frameResults[k].frameNumber = i
                       => /\ ~frameResults[k].isExplicit
                          /\ ~frameResults[k].isViolent
                          /\ FracEq(frameResults[k].confidence, Frac(0, 1))
                          /\ frameResults[k].error
    /\ (verdict # "none" /\ frames > 0) => Len(classified) = frames

TranscodeSucceeded ==
    \E k \in 1..Len(emitted) : emitted[k].status = "finalizing"

StageForVerdict == IF verdict = "flagged" THEN "flagged" ELSE "completed"

C19_PersistedProgressNonDecreasing ==
    [][record'.processingProgress >= record.processingProgress]_vars

C21_ExtractionFailureDegradesToSafe ==
    /\ []((hasBackend /\ duration >= 3 /\ verdict # "none" /\ frames = 0)
            => (verdict = "safe" /\ FracEq(confidence, Frac(1, 2))))
    /\ []((pc = "done" /\ hasBackend /\ duration >= 3 /\ frames = 0
              /\ ~updateFailed /\ ~transcodeFailed)
            => /\ CompleteEvents # {}
               /\ \A k \in CompleteEvents : emitted[k].status = "completed")
    /\ [][(pc = "await_extract" /\ pc' # "await_extract" /\ frames' = 0)
            => /\ pc' = "await_compress_write"
               /\ emitted'[Len(emitted')] = ProgressEvent(Pct(50), "compressing")
               /\ awaitedWrite' = [processingProgress |-> Pct(50)]]_vars

(* two frames were requested, none was delivered, the job ended completed *)
C21_Witness ==
    /\ pc = "done"
    /\ hasBackend
    /\ frameCount = 2
    /\ frames = 0
    /\ verdict = "safe"
    /\ \E k \in CompleteEvents : emitted[k].status = "completed"

(* C22: for every annotation of the categorical backend the frame is      *)
(* explicit exactly when adult or racy is LIKELY or VERY_LIKELY, violent   *)
(* exactly when violence is, and its confidence is 0.9 when it is explicit *)
(* or violent and 0.5 otherwise.                                           *)
C22_VisionLikelihoodRule ==
    (safeSearch # NoAnnotation /\ frameAnalysis # NoAnalysis)
        => /\ frameAnalysis.isExplicit
                <=> (LikelyOrAbove(safeSearch.adult) \/ LikelyOrAbove(safeSearch.racy))
           /\ frameAnalysis.isViolent <=> LikelyOrAbove(safeSearch.violence)
           /\ FracEq(frameAnalysis.confidence,
                     IF frameAnalysis.isExplicit \/ frameAnalysis.isViolent
                     THEN Frac(9, 10) ELSE Frac(1, 2))

(* C23: the file of every frame the loop has dealt with is gone, and once  *)
(* the analysis has returned its verdict no frame file of the job is on    *)
(* disk.                                                                   *)
C23_FrameFilesTransient ==
    /\ \A i \in 1..frameIdx : i \notin frameFiles
    /\ verdict # "none" => frameFiles = {}

(* C24: the record holds a derived path only when the transcoder has      *)
(* succeeded, and a record whose stage is failed or not terminal holds     *)
(* none.                                                                   *)
C24_DerivedPathOnlyAfterTranscode ==
    /\ record.processedPath => TranscodeSucceeded
    /\ (record.status = "failed" \/ record.status \notin TerminalStages)
          => ~record.processedPath

(* NormalizePhase is the updater on the messages the server sends *)
NormalizePhaseMatchesText ==
    \A m \in ServerMessages, prev \in KnownPhases :
        NormalizePhase(prev, m) = NormalizeStatus(prev, RawText(m), FALSE)

C26_FailedEventCarriesNoMessage ==
    \A k \in CompleteEvents : emitted[k].status = "failed" => ~emitted[k].error

(* C27: once the phase of the mounted upload page is terminal it stays     *)
(* that phase.                                                             *)
C27_TerminalPhaseAbsorbing ==
    [][(mounted /\ effectGen > 0 /\ status \in TerminalStages) => status' = status]_vars

(* C28: when no frame of the job was scored by a detection backend (each   *)
(* classification timed out or fell back to analyzeFrameBasic), the        *)
(* verdict is not safe with confidence 0.85.                               *)
C28_NoSafeVerdictWithoutScoredFrame ==
    (/\ verdict # "none"
     /\ frames > 0
     /\ Len(classified) = frames
     /\ \A i \in 1..frames : classified[i] \in {"timeout", "unavailable"})
        => ~(verdict = "safe" /\ FracEq(confidence, Frac(17, 20)))

(* C29: the progress shown by the mounted upload page never decreases.     *)
C29_ConsumerProgressNonDecreasing ==
    [][(mounted /\ effectGen > 0) => processingProgress' >= processingProgress]_vars

(* C30: a VideoPlayer that has fetched the job in a non-terminal stage     *)
(* and run its effect has subscribed to the job and shows it as            *)
(* processing.                                                             *)
C30_PlayerFollowsNonTerminalJob ==
    (video # NoRecord /\ video \notin TerminalStages /\ ~playerDirty)
        => (playerSubscribed /\ PlayerView(video) = "processing")

====
